---------------------------- MODULE Spec2Model ----------------------------
(***************************************************************************)
(* KPI calendar, daily-point scoring, range aggregation and leaderboards   *)
(* of the soldiers dashboard (src/app.py, src/update_service.py).          *)
(*                                                                         *)
(* Dates are proleptic Gregorian ordinals, as datetime.date.toordinal():   *)
(* ordinal 1 is Monday 0001-01-01.  A posted_at timestamp is the ordinal   *)
(* of its UTC day (the application always stores UTC midnight).            *)
(* Scores are exact rationals <<numerator, denominator>> in lowest terms;  *)
(* the program computes them in binary floating point.                     *)
(***************************************************************************)
EXTENDS Integers, Sequences, FiniteSets, TLC

VARIABLES
    today,          \* the date handed to the calendar helpers
    units,          \* the unit count handed to compute_qq_points
    soldiers,       \* the store's soldiers table: rows [id, handle]
    soldier_cache,  \* UpdateService._soldier_cache: handle -> row
    posts,          \* the store's posts table: rows
    ret,            \* the value returned by the last call
    access_token,   \* the JWT the shared service's store client sends
    pc              \* each browser session's place in its script run

vars == <<today, units, soldiers, soldier_cache, posts, ret, access_token, pc>>

NoRet == [op |-> "none"]

\* the browser sessions that share the one UpdateService (st.cache_resource)
Sessions == {"A", "B"}

\* a session between two runs of the script; ran_as: the tokens its store
\* operations were sent with
NoRun == [at |-> "start", ran_as |-> {}]

\* the service as constructed (anon key only), no script running
SessionsIdle ==
    /\ access_token = "anon"
    /\ pc = [s \in Sessions |-> NoRun]

-----------------------------------------------------------------------------
(* Bounds of the calendar model                                            *)

FirstYear == 2023
NumYears == 3
MaxCount == 14
MaxUnits == 60

LastYear == FirstYear + NumYears - 1

-----------------------------------------------------------------------------
(* datetime.date arithmetic                                                *)

IsLeap(y) == (y % 4 = 0) /\ ((y % 100 # 0) \/ (y % 400 = 0))

DaysInMonth(y, m) ==
    IF m = 2 THEN (IF IsLeap(y) THEN 29 ELSE 28)
    ELSE IF m \in {4, 6, 9, 11} THEN 30 ELSE 31

RECURSIVE DaysBeforeMonth(_, _)
DaysBeforeMonth(y, m) ==
    IF m = 1 THEN 0 ELSE DaysBeforeMonth(y, m - 1) + DaysInMonth(y, m - 1)

DaysBeforeYear(y) ==
    (y - 1) * 365 + ((y - 1) \div 4) - ((y - 1) \div 100) + ((y - 1) \div 400)

\* date(y, m, d) as an ordinal
date(y, m, d) == DaysBeforeYear(y) + DaysBeforeMonth(y, m) + d

\* years the model can name: the bound, with a margin for month wrap-around
CalYears == (FirstYear - 1) .. (LastYear + 2)

year_of(o) == CHOOSE y \in CalYears : date(y, 1, 1) <= o /\ o < date(y + 1, 1, 1)

month_of(o) ==
    LET y == year_of(o)
    IN  CHOOSE m \in 1..12 :
            date(y, m, 1) <= o /\ o < date(y, m, 1) + DaysInMonth(y, m)

\* date.weekday(): Monday = 0 .. Sunday = 6
weekday(o) == (o + 6) % 7

-----------------------------------------------------------------------------
(* Calendar engine: src/app.py                                             *)

_kpi_month_window_five_weeks(target_date) ==
    LET month_start == date(year_of(target_date), month_of(target_date), 1)
        start == month_start - ((weekday(month_start) + 1) % 7)
        end == start + 34
    IN  <<start, end>>

_kpi_month_window_sunday_after(target_date) ==
    LET month_start == date(year_of(target_date), month_of(target_date), 1)
        start == month_start + ((6 - weekday(month_start)) % 7)
        end == start + 27
    IN  <<start, end>>

_kpi_month_window(target_date) ==
    LET month_start == date(year_of(target_date), month_of(target_date), 1)
        start == month_start - ((weekday(month_start) + 1) % 7)
        end == start + 27
    IN  <<start, end>>

current_kpi_window_no_advance(d) == _kpi_month_window(d)

current_kpi_window(d) ==
    LET w == _kpi_month_window(d)
        y == year_of(d)
        m == month_of(d)
    IN  IF d > w[2] THEN
            LET next_month == IF m = 12 THEN 1 ELSE m + 1
                next_year == y + (IF m = 12 THEN 1 ELSE 0)
            IN  _kpi_month_window(date(next_year, next_month, 1))
        ELSE IF d < w[1] THEN
            LET prev_month == IF m = 1 THEN 12 ELSE m - 1
                prev_year == y - (IF m = 1 THEN 1 ELSE 0)
            IN  _kpi_month_window(date(prev_year, prev_month, 1))
        ELSE w

\* the `while m <= 0: m += 12; y -= 1` loop of kpi_month_sequence
RECURSIVE WrapMonth(_, _)
WrapMonth(y, m) == IF m <= 0 THEN WrapMonth(y - 1, m + 12) ELSE <<y, m>>

kpi_month_sequence_from_start(d, count) ==
    LET start == current_kpi_window(d)[1]
        year == year_of(start)
        month == month_of(start)
    IN  [k \in 1..count |-> WrapMonth(year, month - (k - 1))]

kpi_month_sequence(d, count) ==
    LET end == current_kpi_window(d)[2]
        year == year_of(end)
        month == month_of(end)
    IN  [k \in 1..count |-> WrapMonth(year, month - (k - 1))]

app_start_of_week_window(target_date) ==
    target_date - ((weekday(target_date) + 1) % 7)

app_four_week_windows(year, month) ==
    LET week1_start == app_start_of_week_window(date(year, month, 1))
    IN  [k \in 1..4 |-> <<week1_start + 7 * (k - 1), week1_start + 7 * (k - 1) + 6>>]

-----------------------------------------------------------------------------
(* Calendar helpers and scoring function: src/update_service.py            *)

QQ_THRESHOLDS ==
    << <<0, 0>>, <<2, 1>>, <<5, 2>>, <<8, 3>>, <<11, 4>>,
       <<15, 5>>, <<20, 6>>, <<25, 7>>, <<30, 8>>, <<35, 9>> >>

compute_qq_points_exclusive(u) ==
    LET hits == {k \in 1..Len(QQ_THRESHOLDS) : u < QQ_THRESHOLDS[k][1]}
    IN  IF hits = {} THEN 10
        ELSE QQ_THRESHOLDS[CHOOSE k \in hits : \A j \in hits : k <= j][2]

\* first threshold, in table order, whose upper bound is >= units
compute_qq_points(u) ==
    LET hits == {k \in 1..Len(QQ_THRESHOLDS) : u <= QQ_THRESHOLDS[k][1]}
    IN  IF hits = {} THEN 10
        ELSE QQ_THRESHOLDS[CHOOSE k \in hits : \A j \in hits : k <= j][2]

start_of_week_window_monday(target_date) ==
    target_date - weekday(target_date)

start_of_week_window(target_date) ==
    target_date - ((weekday(target_date) + 1) % 7)

four_week_windows_from_first(year, month) ==
    LET week1_start == date(year, month, 1)
    IN  [k \in 1..4 |-> <<week1_start + 7 * (k - 1), week1_start + 7 * (k - 1) + 6>>]

four_week_windows_overlapping(year, month) ==
    LET week1_start == start_of_week_window(date(year, month, 1))
    IN  [k \in 1..4 |-> <<week1_start + 6 * (k - 1), week1_start + 6 * (k - 1) + 6>>]

four_week_windows(year, month) ==
    LET month_start == date(year, month, 1)
        week1_start == start_of_week_window(month_start)
    IN  [k \in 1..4 |-> <<week1_start + 7 * (k - 1), week1_start + 7 * (k - 1) + 6>>]

-----------------------------------------------------------------------------
(* Specification of the calendar helpers: a date, and the helpers applied  *)
(* to it.                                                                  *)

Dates == date(FirstYear, 1, 1) .. date(LastYear, 12, 31)
Years == FirstYear .. LastYear

StoreIdle ==
    /\ soldiers = {}
    /\ soldier_cache = <<>>
    /\ posts = {}

InitCal ==
    /\ today \in Dates
    /\ units = 0
    /\ StoreIdle
    /\ ret = NoRet
    /\ SessionsIdle

\* a helper is called on the current date; the next call follows the return
Idle == ret = NoRet

Call_kpi_month_window ==
    /\ Idle
    /\ ret' = [op |-> "_kpi_month_window", arg |-> today,
               window |-> _kpi_month_window(today)]
    /\ UNCHANGED <<today, units, soldiers, soldier_cache, posts, access_token, pc>>

Call_current_kpi_window ==
    /\ Idle
    /\ ret' = [op |-> "current_kpi_window", arg |-> today,
               window |-> current_kpi_window(today)]
    /\ UNCHANGED <<today, units, soldiers, soldier_cache, posts, access_token, pc>>

Call_kpi_month_sequence ==
    \E count \in 1..MaxCount :
        /\ Idle
        /\ ret' = [op |-> "kpi_month_sequence", arg |-> today, count |-> count,
                   months |-> kpi_month_sequence(today, count)]
        /\ UNCHANGED <<today, units, soldiers, soldier_cache, posts, access_token, pc>>

Call_start_of_week_window ==
    /\ Idle
    /\ ret' = [op |-> "start_of_week_window", arg |-> today,
               start |-> start_of_week_window(today),
               app_start |-> app_start_of_week_window(today)]
    /\ UNCHANGED <<today, units, soldiers, soldier_cache, posts, access_token, pc>>

\* the leaderboard page asks for the windows of a (year, month) of its picker
Call_four_week_windows ==
    /\ Idle
    /\ ret' = [op |-> "four_week_windows",
               year |-> year_of(today), month |-> month_of(today),
               windows |-> four_week_windows(year_of(today), month_of(today)),
               app_windows |-> app_four_week_windows(year_of(today), month_of(today))]
    /\ UNCHANGED <<today, units, soldiers, soldier_cache, posts, access_token, pc>>

\* the call has returned and the clock moves to the next day
NextDay ==
    /\ ~Idle
    /\ today + 1 \in Dates
    /\ today' = today + 1
    /\ ret' = NoRet
    /\ UNCHANGED <<units, soldiers, soldier_cache, posts, access_token, pc>>

NextCal ==
    \/ Call_kpi_month_window
    \/ Call_current_kpi_window
    \/ Call_kpi_month_sequence
    \/ Call_start_of_week_window
    \/ Call_four_week_windows
    \/ NextDay

SpecCal == InitCal /\ [][NextCal]_vars

-----------------------------------------------------------------------------
(* Specification of the scoring function                                   *)

InitPts ==
    /\ today = date(FirstYear, 1, 1)
    /\ units \in 0..MaxUnits
    /\ StoreIdle
    /\ ret = NoRet
    /\ SessionsIdle

Call_compute_qq_points ==
    /\ Idle
    /\ ret' = [op |-> "compute_qq_points", arg |-> units,
               points |-> compute_qq_points(units)]
    /\ UNCHANGED <<today, units, soldiers, soldier_cache, posts, access_token, pc>>

\* the next day's total is one unit more (another submission) or starts over
NextUnits ==
    /\ ~Idle
    /\ units' \in {0, units + 1} \cap (0..MaxUnits)
    /\ ret' = NoRet
    /\ UNCHANGED <<today, soldiers, soldier_cache, posts, access_token, pc>>

NextPts ==
    \/ Call_compute_qq_points
    \/ NextUnits

SpecPts == InitPts /\ [][NextPts]_vars

-----------------------------------------------------------------------------
(* Strings that the program compares: handles are sequences of code points *)

Lower_case_sensitive(h) == h

\* str.lower() on ASCII letters
Lower(h) == [i \in DOMAIN h |-> IF h[i] \in 65..90 THEN h[i] + 32 ELSE h[i]]

\* Python's `<` on strings: lexicographic by code point, a proper prefix first
RECURSIVE StrLess(_, _)
StrLess(a, b) ==
    IF Len(b) = 0 THEN FALSE
    ELSE IF Len(a) = 0 THEN TRUE
    ELSE IF a[1] # b[1] THEN a[1] < b[1]
    ELSE StrLess(Tail(a), Tail(b))

H_alice == <<97, 108, 105, 99, 101>>            \* "alice"
H_Bob == <<66, 111, 98>>                         \* "Bob"
H_bob == <<98, 111, 98>>                         \* "bob"
H_PGM == <<80, 71, 77>>                          \* "PGM"
H_pgm == <<112, 103, 109>>                       \* "pgm"
H_Unknown == <<85, 110, 107, 110, 111, 119, 110>> \* "Unknown"

-----------------------------------------------------------------------------
(* Exact rationals <<n, d>>, d > 0, in lowest terms                        *)

RECURSIVE GCD(_, _)
GCD(a, b) == IF b = 0 THEN a ELSE GCD(b, a % b)

Rat(n, d) == LET g == GCD(n, d) IN IF n = 0 THEN <<0, 1>> ELSE <<n \div g, d \div g>>
RatAdd(a, b) == Rat(a[1] * b[2] + b[1] * a[2], a[2] * b[2])
RatLess(a, b) == a[1] * b[2] < b[1] * a[2]

-----------------------------------------------------------------------------
(* Bounds and inputs of the store model                                    *)

MaxPosts == 4

\* status ids of the links the callers submit
Tweets == {1, 2}
Categories == {"TM", "SE", "SH"}

\* rows the soldiers table may hold: two contributors and the sentinel
SoldierRows ==
    { [id |-> 1, handle |-> H_alice],
      [id |-> 2, handle |-> H_Bob],
      [id |-> 3, handle |-> H_PGM] }

\* the KPI month the leaderboard page shows, and the one after it
QueryMonths == { <<2024, 3>>, <<2024, 4>> }

\* posted dates: the last day of week 1 and the first day of week 2 of the
\* KPI month of March 2024
PostDays == { date(2024, 3, 2), date(2024, 3, 3) }

\* the url of a post: the status id of the link, and whether it carries the
\* "#auto-se" suffix; the rest of the normalized url is fixed by the soldier
Url(t, auto) == [tweet |-> t, auto |-> auto]

-----------------------------------------------------------------------------
(* UpdateService: soldier cache                                            *)

\* the dict built by refresh_soldiers from the soldiers table
refresh_soldiers(table) ==
    LET kept == {r \in table : Lower(r.handle) # H_pgm}
        handles == {r.handle : r \in kept}
    IN  [h \in handles |-> CHOOSE r \in kept : r.handle = h]

get_soldiers_always_reads(cache, table) == refresh_soldiers(table)

\* the cache after get_soldiers / _get_soldier: refreshed when empty
get_soldiers(cache, table) ==
    IF DOMAIN cache = {} THEN refresh_soldiers(table) ELSE cache

CacheRows(cache) == {cache[h] : h \in DOMAIN cache}

-----------------------------------------------------------------------------
(* UpdateService: aggregation                                              *)

RECURSIVE SumUnits(_)
SumUnits(S) ==
    IF S = {} THEN 0
    ELSE LET p == CHOOSE x \in S : TRUE IN p.units + SumUnits(S \ {p})

RECURSIVE SumOver(_, _)
SumOver(f, S) ==
    IF S = {} THEN 0
    ELSE LET x == CHOOSE y \in S : TRUE IN f[x] + SumOver(f, S \ {x})

_fetch_posts_range(table, start, end) ==
    {p \in table : start <= p.posted_at /\ p.posted_at <= end}

\* id_to_handle.get(sid, "Unknown")
HandleOf(cache, sid) ==
    LET rows == {r \in CacheRows(cache) : r.id = sid}
    IN  IF rows = {} THEN H_Unknown ELSE (CHOOSE r \in rows : TRUE).handle

RowBefore_handle_descending(a, b) ==
    \/ RatLess(b.score, a.score)
    \/ /\ a.score = b.score
       /\ \/ a.total_units > b.total_units
          \/ a.total_units = b.total_units /\ StrLess(b.handle, a.handle)

\* sort key (-score, -total_units, handle)
RowBefore(a, b) ==
    \/ RatLess(b.score, a.score)
    \/ /\ a.score = b.score
       /\ \/ a.total_units > b.total_units
          \/ a.total_units = b.total_units /\ StrLess(a.handle, b.handle)

\* list.sort(key=...) of rows with pairwise different keys
SortRows(rows) ==
    [k \in 1..Cardinality(rows) |->
        CHOOSE r \in rows : Cardinality({q \in rows : RowBefore(q, r)}) = k - 1]

\* sum of the daily points over the days of the range, days without a post
\* counting compute_qq_points(0)
RECURSIVE DailyPoints(_, _, _)
DailyPoints(daily, start, days) ==
    IF days <= 0 THEN 0
    ELSE LET d == start + (days - 1)
             u == IF d \in DOMAIN daily THEN daily[d] ELSE 0
         IN  compute_qq_points(u) + DailyPoints(daily, start, days - 1)

RangeScore_not_scaled(daily, start, days_in_range) ==
    IF days_in_range > 0
    THEN Rat(DailyPoints(daily, start, days_in_range), days_in_range)
    ELSE <<0, 1>>

RangeScore_posted_days_only(daily, start, days_in_range) ==
    LET n == Cardinality(DOMAIN daily)
    IN  IF n > 0 THEN Rat(DailyPoints(daily, start, days_in_range), n * 10)
        ELSE <<0, 1>>

\* data["score"] = daily_points / (days_in_range * 10) if days_in_range > 0 else 0
RangeScore(daily, start, days_in_range) ==
    IF days_in_range > 0
    THEN Rat(DailyPoints(daily, start, days_in_range), days_in_range * 10)
    ELSE <<0, 1>>

AggRow_total_without_shills(handle, mine, start, days_in_range) ==
    LET daily == [d \in {p.posted_at : p \in mine} |->
                     SumUnits({p \in mine : p.posted_at = d})]
    IN  [handle |-> handle,
         tm |-> SumUnits({p \in mine : p.category = "TM"}),
         se |-> SumUnits({p \in mine : p.category = "SE"}),
         sh |-> SumUnits({p \in mine : p.category = "SH"}),
         total_units |-> SumUnits({p \in mine : p.category # "SH"}),
         daily |-> daily,
         score |-> RangeScore(daily, start, days_in_range)]

AggRow(handle, mine, start, days_in_range) ==
    LET daily == [d \in {p.posted_at : p \in mine} |->
                     SumUnits({p \in mine : p.posted_at = d})]
    IN  [handle |-> handle,
         tm |-> SumUnits({p \in mine : p.category = "TM"}),
         se |-> SumUnits({p \in mine : p.category = "SE"}),
         sh |-> SumUnits({p \in mine : p.category = "SH"}),
         total_units |-> SumUnits(mine),
         daily |-> daily,
         score |-> RangeScore(daily, start, days_in_range)]

\* the fetched posts the loop of _aggregate_range does not `continue` past
CountedPosts(cache, table, start, end) ==
    {p \in _fetch_posts_range(table, start, end) :
        LET handle == HandleOf(cache, p.soldier_id)
        IN  ~(Lower(handle) = H_pgm \/ handle = H_Unknown)}

\* datetime.fromisoformat(post["posted_at"]...) accepts the text of the row's
\* posted date; a row the service wrote always parses
Parses(p) == IF "iso_ok" \in DOMAIN p THEN p.iso_ok ELSE TRUE

\* _aggregate_range raises: fromisoformat fails on a post that is counted
\* (the call is inside no try block)
_aggregate_range_raises(cache, table, start, end) ==
    \E p \in CountedPosts(cache, table, start, end) : ~Parses(p)

\* _aggregate_range, given the cache get_soldiers returned
_aggregate_range(cache, table, start, end) ==
    LET days_in_range == (end - start) + 1
        counted == CountedPosts(cache, table, start, end)
        handles == {HandleOf(cache, p.soldier_id) : p \in counted}
    IN  SortRows({AggRow(h, {p \in counted : HandleOf(cache, p.soldier_id) = h},
                         start, days_in_range) : h \in handles})

-----------------------------------------------------------------------------
(* UpdateService: leaderboards                                             *)

RECURSIVE RatSum(_)
RatSum(scores) ==
    IF Len(scores) = 0 THEN <<0, 1>> ELSE RatAdd(Head(scores), RatSum(Tail(scores)))

MonthlyScore_average_of_present_weeks(scores) ==
    IF Len(scores) > 0
    THEN LET t == RatSum(scores) IN Rat(t[1], t[2] * Len(scores))
    ELSE <<0, 1>>

\* avg_score = sum(data["scores"]) / 4 if data["scores"] else 0
MonthlyScore(scores) ==
    IF Len(scores) > 0
    THEN LET t == RatSum(scores) IN Rat(t[1], t[2] * 4)
    ELSE <<0, 1>>

\* the rows of one weekly leaderboard, as a set
RowsOf(board) == {board[k] : k \in 1..Len(board)}

\* the weeks, in order, in which handle h has a row
RECURSIVE WeeksWith(_, _, _)
WeeksWith(weekly, h, k) ==
    IF k > Len(weekly) THEN <<>>
    ELSE LET rest == WeeksWith(weekly, h, k + 1)
             mine == {r \in RowsOf(weekly[k]) : r.handle = h}
         IN  IF mine = {} THEN rest ELSE <<CHOOSE r \in mine : TRUE>> \o rest

RECURSIVE SumField(_, _)
SumField(rows, f) ==
    IF Len(rows) = 0 THEN 0 ELSE Head(rows)[f] + SumField(Tail(rows), f)

MonthlyRow_first_week_only(weekly, h) ==
    LET mine == SubSeq(WeeksWith(weekly, h, 1), 1, 1)
    IN  [handle |-> h,
         tm |-> SumField(mine, "tm"),
         se |-> SumField(mine, "se"),
         sh |-> SumField(mine, "sh"),
         total_units |-> SumField(mine, "total_units"),
         score |-> MonthlyScore([k \in 1..Len(WeeksWith(weekly, h, 1)) |->
                                    WeeksWith(weekly, h, 1)[k].score])]

MonthlyRow(weekly, h) ==
    LET mine == WeeksWith(weekly, h, 1)
    IN  [handle |-> h,
         tm |-> SumField(mine, "tm"),
         se |-> SumField(mine, "se"),
         sh |-> SumField(mine, "sh"),
         total_units |-> SumField(mine, "total_units"),
         score |-> MonthlyScore([k \in 1..Len(mine) |-> mine[k].score])]

\* monthly_list of get_leaderboards, from the weekly boards it collected
MonthlyList(weekly) ==
    LET handles == UNION {{r.handle : r \in RowsOf(weekly[k])} : k \in 1..4}
    IN  SortRows({MonthlyRow(weekly, h) : h \in handles})

\* get_leaderboards, given the cache get_soldiers returned
get_leaderboards(cache, table, year, month) ==
    LET windows == four_week_windows(year, month)
        weekly == [k \in 1..4 |->
                      _aggregate_range(cache, table, windows[k][1], windows[k][2])]
    IN  [weeks |-> weekly,
         monthly |-> MonthlyList(weekly),
         windows |-> windows]

-----------------------------------------------------------------------------
(* UpdateService: submissions                                              *)

PostId(sid, t, auto) == <<sid, t, auto>>

PostRow(sid, category, t, auto, u, d) ==
    [id |-> PostId(sid, t, auto), soldier_id |-> sid, category |-> category,
     url |-> Url(t, auto), units |-> u, posted_at |-> d]

\* category_map.get(category_label, category_label)
CategoryLabels == {"Thread/Meme", "Secret's Engagement", "Shill", "Other"}

category_map(label) ==
    CASE label \in {"Thread/Meme", "Thread/Memes"} -> "TM"
      [] label = "Secret's Engagement" -> "SE"
      [] label \in {"Shill", "SHILL"} -> "SH"
      [] OTHER -> label

\* supabase upsert(rows, on_conflict="soldier_id,url")
Upsert(table, rows) ==
    {p \in table : \A r \in rows : ~(r.soldier_id = p.soldier_id /\ r.url = p.url)}
        \cup rows

AddContentRows_without_linked_row(sid, category, t, d) ==
    {PostRow(sid, category, t, FALSE, 1, d)}

\* the rows add_content upserts
AddContentRows(sid, category, t, d) ==
    {PostRow(sid, category, t, FALSE, 1, d)}
        \cup (IF category = "TM" THEN {PostRow(sid, "SE", t, TRUE, 6, d)} ELSE {})

Failed(op, msg) == [op |-> op, ok |-> FALSE, msg |-> msg]

\* add_content(soldier_handle, content_url, category_label, posted_at);
\* link_ok: the link parses, resolves and belongs to the soldier;
\* d = 0: no posted date given
add_content(soldier_handle, t, category_label, d, link_ok) ==
    LET cache == get_soldiers(soldier_cache, soldiers)
        category == category_map(category_label)
    IN  /\ soldier_cache' = cache
        /\ UNCHANGED <<today, units, soldiers>>
        /\ IF soldier_handle \notin DOMAIN cache THEN
               /\ ret' = Failed("add_content", "Soldier not found. Refresh and try again.")
               /\ UNCHANGED posts
           ELSE IF category \notin {"TM", "SE", "SH"} THEN
               /\ ret' = Failed("add_content", "Invalid category.")
               /\ UNCHANGED posts
           ELSE IF ~link_ok THEN
               /\ ret' = Failed("add_content", "Invalid X link format.")
               /\ UNCHANGED posts
           ELSE IF \E p \in posts : p.soldier_id = cache[soldier_handle].id
                                      /\ p.url.tweet = t THEN
               /\ ret' = Failed("add_content",
                                "Link already submitted for this soldier. Please submit a new link.")
               /\ UNCHANGED posts
           ELSE IF d = 0 THEN
               /\ ret' = Failed("add_content", "Posted date is required. Posted date missing.")
               /\ UNCHANGED posts
           ELSE
               LET sid == cache[soldier_handle].id
                   rows == AddContentRows(sid, category, t, d)
               IN  /\ Cardinality(posts) + Cardinality(rows) <= MaxPosts
                   /\ posts' = Upsert(posts, rows)
                   /\ ret' = [op |-> "add_content", ok |-> TRUE,
                              msg |-> "Content recorded with posted date",
                              soldier_id |-> sid, tweet |-> t,
                              category |-> category, posted_at |-> d]

AllowedIds_any_cached(cache, allowed_handles) ==
    {r.id : r \in CacheRows(cache)}

\* handle_to_id / allowed_ids of delete_post and update_post
AllowedIds(cache, allowed_handles) ==
    {r.id : r \in {c \in CacheRows(cache) :
                      \E h \in allowed_handles : Lower(h) = Lower(c.handle)}}

delete_post(post_id, allowed_handles) ==
    LET cache == get_soldiers(soldier_cache, soldiers)
        allowed_ids == AllowedIds(cache, allowed_handles)
        found == {p \in posts : p.id = post_id}
    IN  /\ soldier_cache' = cache
        /\ UNCHANGED <<today, units, soldiers>>
        /\ IF allowed_ids = {} THEN
               /\ ret' = Failed("delete_post", "Not authorized")
               /\ UNCHANGED posts
           ELSE IF found = {} THEN
               /\ ret' = Failed("delete_post", "Post not found")
               /\ UNCHANGED posts
           ELSE IF (CHOOSE p \in found : TRUE).soldier_id \notin allowed_ids THEN
               /\ ret' = Failed("delete_post", "Not authorized")
               /\ UNCHANGED posts
           ELSE
               /\ posts' = {p \in posts : p.id # post_id}
               /\ ret' = [op |-> "delete_post", ok |-> TRUE, msg |-> "Deleted",
                          post_id |-> post_id]

SyncLinkedRow_keeps_linked_row(table1, record, new_category, d) ==
    LET auto == {p \in table1 : p.soldier_id = record.soldier_id
                                  /\ p.url = Url(record.url.tweet, TRUE)}
    IN  IF new_category = "TM" THEN
            IF auto # {} THEN
                LET a == CHOOSE p \in auto : TRUE
                IN  (table1 \ {a}) \cup
                    {[a EXCEPT !.category = "SE", !.posted_at = d, !.units = 6]}
            ELSE table1 \cup
                 {PostRow(record.soldier_id, "SE", record.url.tweet, TRUE, 6, d)}
        ELSE table1

SyncLinkedRow_keeps_linked_date(table1, record, new_category, d) ==
    LET auto == {p \in table1 : p.soldier_id = record.soldier_id
                                  /\ p.url = Url(record.url.tweet, TRUE)}
    IN  IF new_category = "TM" THEN
            IF auto # {} THEN
                LET a == CHOOSE p \in auto : TRUE
                IN  (table1 \ {a}) \cup
                    {[a EXCEPT !.category = "SE", !.units = 6]}
            ELSE table1 \cup
                 {PostRow(record.soldier_id, "SE", record.url.tweet, TRUE, 6, d)}
        ELSE table1 \ auto

SyncLinkedRow_inserts_unit_row(table1, record, new_category, d) ==
    LET auto == {p \in table1 : p.soldier_id = record.soldier_id
                                  /\ p.url = Url(record.url.tweet, TRUE)}
    IN  IF new_category = "TM" THEN
            IF auto # {} THEN
                LET a == CHOOSE p \in auto : TRUE
                IN  (table1 \ {a}) \cup
                    {[a EXCEPT !.category = "SE", !.posted_at = d, !.units = 6]}
            ELSE table1 \cup
                 {PostRow(record.soldier_id, "SE", record.url.tweet, TRUE, 1, d)}
        ELSE table1 \ auto

\* update_post, the branch "if not is_auto": the linked row (same soldier,
\* url = base url + #auto-se) is updated or inserted when the new category is
\* TM, and deleted otherwise
SyncLinkedRow(table1, record, new_category, d) ==
    LET auto_url == Url(record.url.tweet, TRUE)
        auto == {p \in table1 : p.soldier_id = record.soldier_id
                                  /\ p.url = auto_url}
    IN  IF new_category = "TM" THEN
            IF auto # {} THEN
                LET a == CHOOSE p \in auto : TRUE
                IN  (table1 \ {a}) \cup
                    {[a EXCEPT !.category = "SE", !.posted_at = d, !.units = 6]}
            ELSE table1 \cup
                 {PostRow(record.soldier_id, "SE", record.url.tweet, TRUE, 6, d)}
        ELSE table1 \ auto

update_post(post_id, allowed_handles, category, d) ==
    LET cache == get_soldiers(soldier_cache, soldiers)
        allowed_ids == AllowedIds(cache, allowed_handles)
        found == {p \in posts : p.id = post_id}
    IN  /\ soldier_cache' = cache
        /\ UNCHANGED <<today, units, soldiers>>
        /\ IF allowed_ids = {} THEN
               /\ ret' = Failed("update_post", "Not authorized")
               /\ UNCHANGED posts
           ELSE IF found = {} THEN
               /\ ret' = Failed("update_post", "Post not found")
               /\ UNCHANGED posts
           ELSE IF (CHOOSE p \in found : TRUE).soldier_id \notin allowed_ids THEN
               /\ ret' = Failed("update_post", "Not authorized")
               /\ UNCHANGED posts
           ELSE
               LET record == CHOOSE p \in found : TRUE
                   is_auto == record.url.auto
                   new_category == IF is_auto THEN "SE" ELSE category
                   updated == [record EXCEPT !.category = new_category,
                                             !.posted_at = d]
                   table1 == (posts \ {record}) \cup {updated}
                   table2 == IF is_auto THEN table1
                             ELSE SyncLinkedRow(table1, record, new_category, d)
               IN  /\ Cardinality(table2) <= MaxPosts
                   /\ posts' = table2
                   /\ ret' = [op |-> "update_post", ok |-> TRUE, msg |-> "Updated",
                              post_id |-> post_id, category |-> new_category,
                              posted_at |-> d]

-----------------------------------------------------------------------------
(* Specification of the service over the store                             *)

\* the posts table holds a row owned by the sentinel contributor before the
\* service is used (the service itself never adds one)
InitialPosts == {PostRow(3, "SH", 1, FALSE, 1, date(2024, 3, 2))}

\* ranges handed to _aggregate_range: the first two weeks and the whole of
\* the KPI month of March 2024, one day, and a range without days
QueryRanges ==
    { four_week_windows(2024, 3)[1], four_week_windows(2024, 3)[2],
      _kpi_month_window(date(2024, 3, 1)),
      <<date(2024, 3, 2), date(2024, 3, 2)>>,
      <<date(2024, 3, 3), date(2024, 3, 2)>> }

\* what the callers pass to add_content: every valid combination, and one
\* call for each way of being turned down (d = 0: no posted date)
AddInputs(Ts, Ds) ==
    {<<h, t, label, d, TRUE>> :
        h \in {H_alice, H_Bob}, t \in Ts,
        label \in {"Thread/Meme", "Secret's Engagement", "Shill"}, d \in Ds}
    \cup { <<H_PGM, 1, "Shill", date(2024, 3, 2), TRUE>>,
           <<H_alice, 1, "Other", date(2024, 3, 2), TRUE>>,
           <<H_alice, 1, "Shill", date(2024, 3, 2), FALSE>>,
           <<H_alice, 1, "Shill", 0, TRUE>> }

\* the handles a caller is allowed to edit
AllowedInputs == { {}, {H_alice}, {H_bob} }

\* the ids a caller names: those of the rows of the table, and a stale one
IdInputs == {p.id : p \in posts} \cup {PostId(1, 1, FALSE)}

Init ==
    /\ today = date(2024, 3, 1)
    /\ units = 0
    /\ soldiers = SoldierRows
    /\ soldier_cache = <<>>
    /\ posts = InitialPosts
    /\ ret = NoRet
    /\ SessionsIdle

\* the caller has read the returned value
Return ==
    /\ ~Idle
    /\ ret' = NoRet
    /\ UNCHANGED <<today, units, soldiers, soldier_cache, posts, access_token, pc>>

Do_refresh_soldiers ==
    /\ Idle
    /\ soldier_cache' = refresh_soldiers(soldiers)
    /\ ret' = [op |-> "refresh_soldiers"]
    /\ UNCHANGED <<today, units, soldiers, posts, access_token, pc>>

Do_add_content(Ts, Ds) ==
    /\ Idle
    /\ UNCHANGED <<access_token, pc>>
    /\ \E in \in AddInputs(Ts, Ds) : add_content(in[1], in[2], in[3], in[4], in[5])

Do_delete_post ==
    /\ Idle
    /\ UNCHANGED <<access_token, pc>>
    /\ \E id \in IdInputs, allowed \in AllowedInputs : delete_post(id, allowed)

Do_update_post(Ds) ==
    /\ Idle
    /\ UNCHANGED <<access_token, pc>>
    /\ \E id \in IdInputs, allowed \in AllowedInputs, c \in Categories, d \in Ds :
           update_post(id, allowed, c, d)

Do_aggregate_range ==
    /\ Idle
    /\ \E range \in QueryRanges :
        LET cache == get_soldiers(soldier_cache, soldiers)
        IN  /\ soldier_cache' = cache
            /\ ret' = IF _aggregate_range_raises(cache, posts, range[1], range[2])
                      THEN [op |-> "_aggregate_range", start |-> range[1],
                            end |-> range[2], raised |-> "ValueError"]
                      ELSE [op |-> "_aggregate_range", start |-> range[1],
                            end |-> range[2],
                            rows |-> _aggregate_range(cache, posts, range[1], range[2])]
            /\ UNCHANGED <<today, units, soldiers, posts, access_token, pc>>

Do_get_leaderboards ==
    /\ Idle
    /\ \E ym \in QueryMonths :
        LET cache == get_soldiers(soldier_cache, soldiers)
            boards == get_leaderboards(cache, posts, ym[1], ym[2])
            windows == four_week_windows(ym[1], ym[2])
        IN  /\ soldier_cache' = cache
            /\ ret' = IF \E k \in 1..4 :
                             _aggregate_range_raises(cache, posts,
                                                     windows[k][1], windows[k][2])
                      THEN [op |-> "get_leaderboards", year |-> ym[1],
                            month |-> ym[2], raised |-> "ValueError"]
                      ELSE [op |-> "get_leaderboards", year |-> ym[1],
                            month |-> ym[2],
                            weeks |-> boards.weeks, monthly |-> boards.monthly,
                            windows |-> boards.windows]
            /\ UNCHANGED <<today, units, soldiers, posts, access_token, pc>>

Next ==
    \/ Do_refresh_soldiers
    \/ Do_add_content(Tweets, PostDays)
    \/ Do_delete_post
    \/ Do_update_post(PostDays)
    \/ Do_aggregate_range
    \/ Do_get_leaderboards
    \/ Return

Spec == Init /\ [][Next]_vars

-----------------------------------------------------------------------------
(* Specification of the service while the store's owner adds and removes   *)
(* contributors; the callers submit one link each, on one day              *)

StoreAddSoldier ==
    /\ Idle
    /\ \E r \in SoldierRows \ soldiers :
        /\ soldiers' = soldiers \cup {r}
        /\ UNCHANGED <<today, units, soldier_cache, posts, ret, access_token, pc>>

StoreRemoveSoldier ==
    /\ Idle
    /\ \E r \in soldiers :
        /\ soldiers' = soldiers \ {r}
        /\ UNCHANGED <<today, units, soldier_cache, posts, ret, access_token, pc>>

NextChurn ==
    \/ StoreAddSoldier
    \/ StoreRemoveSoldier
    \/ Do_refresh_soldiers
    \/ Do_add_content({1}, {date(2024, 3, 2)})
    \/ Do_delete_post
    \/ Do_update_post({date(2024, 3, 3)})
    \/ Do_aggregate_range
    \/ Do_get_leaderboards
    \/ Return

SpecChurn == Init /\ [][NextChurn]_vars

-----------------------------------------------------------------------------
(* Specification of the service over a store that other clients write to:  *)
(* a contributor whose X handle is "Unknown", and rows the service did not *)
(* validate                                                                *)

LegacySoldierRows == SoldierRows \cup {[id |-> 4, handle |-> H_Unknown]}

\* rows written to the posts table by other clients: one whose category is
\* none of TM, SE, SH, and one whose posted date the store compares as
\* 2024-03-03 but whose text datetime.fromisoformat rejects
RawRows ==
    { PostRow(2, "XX", 2, FALSE, 1, date(2024, 3, 2)),
      [id |-> PostId(1, 2, FALSE), soldier_id |-> 1, category |-> "SH",
       url |-> Url(2, FALSE), units |-> 1, posted_at |-> date(2024, 3, 3),
       iso_ok |-> FALSE] }

InitLegacy ==
    /\ today = date(2024, 3, 1)
    /\ units = 0
    /\ soldiers = LegacySoldierRows
    /\ soldier_cache = <<>>
    /\ posts = InitialPosts
    /\ ret = NoRet
    /\ SessionsIdle

StoreInsertsRow ==
    /\ Idle
    /\ Cardinality(posts) < MaxPosts
    /\ \E r \in RawRows \ posts :
        /\ posts' = posts \cup {r}
        /\ UNCHANGED <<today, units, soldiers, soldier_cache, ret, access_token, pc>>

Do_add_content_named ==
    /\ Idle
    /\ UNCHANGED <<access_token, pc>>
    /\ \E h \in {H_alice, H_Unknown}, label \in {"Thread/Meme", "Shill"},
          d \in PostDays :
           add_content(h, 1, label, d, TRUE)

NextLegacy ==
    \/ StoreInsertsRow
    \/ Do_refresh_soldiers
    \/ Do_add_content_named
    \/ Do_delete_post
    \/ Do_aggregate_range
    \/ Return

SpecLegacy == InitLegacy /\ [][NextLegacy]_vars

-----------------------------------------------------------------------------
(* Specification of two browser sessions on the one shared service: the    *)
(* viewer opens the leaderboard of March 2024 while the editor adds, moves *)
(* and deletes a submission of Bob.  Each script run starts with           *)
(* load_session; a run of get_leaderboards reads the store once per week.  *)

Viewer == "A"
Editor == "B"
ViewerMonth == <<2024, 3>>

\* load_session -> service.set_auth_session(session["access_token"], ...):
\* the shared client sends this session's token from now on
load_session(s) ==
    /\ pc[s].at \in {"start", "done"}
    /\ access_token' = s
    /\ pc' = [pc EXCEPT ![s] = [at |-> "authed", ran_as |-> {}]]
    /\ UNCHANGED <<today, units, soldiers, soldier_cache, posts, ret>>

\* the editor's store operation is sent with the token the client holds now
EditorDone == [pc EXCEPT ![Editor] = [at |-> "done", ran_as |-> {access_token}]]

Edit_add_content ==
    /\ pc[Editor].at = "authed"
    /\ Idle
    /\ \E d \in PostDays : add_content(H_Bob, 1, "Shill", d, TRUE)
    /\ pc' = EditorDone
    /\ UNCHANGED access_token

Edit_update_post ==
    /\ pc[Editor].at = "authed"
    /\ Idle
    /\ \E id \in IdInputs, d \in PostDays : update_post(id, {H_bob}, "SH", d)
    /\ pc' = EditorDone
    /\ UNCHANGED access_token

Edit_delete_post ==
    /\ pc[Editor].at = "authed"
    /\ Idle
    /\ \E id \in IdInputs : delete_post(id, {H_bob})
    /\ pc' = EditorDone
    /\ UNCHANGED access_token

\* get_leaderboards, one pass of `for start, end in windows`: the call of
\* _aggregate_range for the next week, a store read of its own.  The run
\* keeps the boards collected so far and, for the record, the ids of the
\* posts each read counted (fetched) and of the posts that were counted
\* posts of the KPI month at every read so far (present).
Query_fetch_week ==
    LET run == pc[Viewer]
        k == IF run.at = "querying" THEN Len(run.weeks) ELSE 0
        windows == four_week_windows(ViewerMonth[1], ViewerMonth[2])
        cache == get_soldiers(soldier_cache, soldiers)
        ids == {p.id : p \in CountedPosts(cache, posts,
                                          windows[k + 1][1], windows[k + 1][2])}
        in_month == {p.id : p \in CountedPosts(cache, posts,
                                               windows[1][1], windows[4][2])}
    IN  /\ run.at \in {"authed", "querying"}
        /\ k < 4
        /\ soldier_cache' = cache
        /\ pc' = [pc EXCEPT ![Viewer] =
                    [at |-> "querying",
                     ran_as |-> run.ran_as \cup {access_token},
                     weeks |-> (IF k = 0 THEN <<>> ELSE run.weeks) \o
                               <<_aggregate_range(cache, posts, windows[k + 1][1],
                                                  windows[k + 1][2])>>,
                     fetched |-> (IF k = 0 THEN <<>> ELSE run.fetched) \o <<ids>>,
                     present |-> IF k = 0 THEN in_month
                                 ELSE run.present \cap in_month]]
        /\ UNCHANGED <<today, units, soldiers, posts, ret, access_token>>

\* get_leaderboards after the loop: the monthly rollup and the return
Query_return ==
    LET run == pc[Viewer]
    IN  /\ run.at = "querying"
        /\ Len(run.weeks) = 4
        /\ Idle
        /\ ret' = [op |-> "get_leaderboards",
                   year |-> ViewerMonth[1], month |-> ViewerMonth[2],
                   weeks |-> run.weeks, monthly |-> MonthlyList(run.weeks),
                   windows |-> four_week_windows(ViewerMonth[1], ViewerMonth[2])]
        /\ pc' = [pc EXCEPT ![Viewer] =
                    [at |-> "done", ran_as |-> run.ran_as,
                     fetched |-> run.fetched, present |-> run.present]]
        /\ UNCHANGED <<today, units, soldiers, soldier_cache, posts, access_token>>

NextSessions ==
    \/ \E s \in Sessions : load_session(s)
    \/ Edit_add_content
    \/ Edit_update_post
    \/ Edit_delete_post
    \/ Query_fetch_week
    \/ Query_return
    \/ Return

SpecSessions == Init /\ [][NextSessions]_vars

-----------------------------------------------------------------------------
(* Claims about the calendar engine (SpecCal)                              *)

\* C1 as stated: for every date d, current_kpi_window(d) is a 28-day window
\* (end = start + 27) with start <= d <= end.
C1_Original ==
    ret.op = "current_kpi_window" =>
        /\ ret.window[2] = ret.window[1] + 27
        /\ ret.window[1] <= ret.arg
        /\ ret.arg <= ret.window[2]

\* C1 (amended): for every date d, current_kpi_window(d) is a 28-day window
\* (end = start + 27) with d <= end; start <= d holds whenever d is not past
\* the end of the KPI window of its own calendar month, and when d is past it
\* the window returned is the one of the following calendar month.
C1_Window28EndsOnOrAfter ==
    ret.op = "current_kpi_window" =>
        LET d == ret.arg
            own == _kpi_month_window(d)
            y == year_of(d)
            m == month_of(d)
            following == IF m = 12 THEN date(y + 1, 1, 1) ELSE date(y, m + 1, 1)
        IN  /\ ret.window[2] = ret.window[1] + 27
            /\ d <= ret.window[2]
            /\ (d <= own[2] => ret.window[1] <= d)
            /\ (d > own[2] => ret.window = _kpi_month_window(following))

\* C1 witness: a date past its own month's window, answered with the next
\* month's window, which starts after it
C1_Witness ==
    /\ ret.op = "current_kpi_window"
    /\ ret.arg > _kpi_month_window(ret.arg)[2]
    /\ ret.arg < ret.window[1]

WindowDays(w) == w[1] .. w[2]

FourWeeksTile(ws, month_window) ==
    /\ Len(ws) = 4
    /\ \A k \in 1..4 : ws[k][2] = ws[k][1] + 6
    /\ \A k \in 1..3 : ws[k + 1][1] = ws[k][2] + 1
    /\ UNION {WindowDays(ws[k]) : k \in 1..4} = WindowDays(month_window)
    /\ Cardinality(WindowDays(month_window)) = 28

\* C2: for every (year, month), four_week_windows returns exactly 4 windows
\* of 7 days, each starting the day after the previous one ends, whose union
\* is exactly _kpi_month_window(date(year, month, 1)); both copies of the
\* function (update_service.py and app.py) do.
C2_FourWeeksTileKpiMonth ==
    ret.op = "four_week_windows" =>
        LET month_window == _kpi_month_window(date(ret.year, ret.month, 1))
        IN  /\ FourWeeksTile(ret.windows, month_window)
            /\ FourWeeksTile(ret.app_windows, month_window)

\* C2 witness: a month whose 1st is not a Sunday, so the windows start in the
\* previous calendar month
C2_Witness ==
    /\ ret.op = "four_week_windows"
    /\ weekday(date(ret.year, ret.month, 1)) # 6
    /\ ret.windows[1][1] < date(ret.year, ret.month, 1)

-----------------------------------------------------------------------------
(* Claims about the scoring function (SpecPts)                             *)

\* the table of C3, by ranges of units
TablePoints(u) ==
    CASE u = 0 -> 0
      [] u \in 1..2 -> 1
      [] u \in 3..5 -> 2
      [] u \in 6..8 -> 3
      [] u \in 9..11 -> 4
      [] u \in 12..15 -> 5
      [] u \in 16..20 -> 6
      [] u \in 21..25 -> 7
      [] u \in 26..30 -> 8
      [] u \in 31..35 -> 9
      [] OTHER -> 10

\* C3: for every non-negative units, compute_qq_points(units) is the value of
\* the threshold table (0 for 0, 1 for 1..2, ..., 9 for 31..35, 10 from 36),
\* it is within 0..10 and never decreases when units grows by one.
C3_PointsFollowTable ==
    ret.op = "compute_qq_points" =>
        /\ ret.points = TablePoints(ret.arg)
        /\ ret.points \in 0..10
        /\ ret.points <= compute_qq_points(ret.arg + 1)
        /\ (ret.arg >= 36 => ret.points = 10)
        /\ (ret.arg = 0 => ret.points = 0)

\* C3 witness: a count on a threshold's upper bound, scored by that threshold
C3_Witness ==
    /\ ret.op = "compute_qq_points"
    /\ ret.arg = 35
    /\ ret.points = 9

-----------------------------------------------------------------------------
(* Claims about aggregation and leaderboards (Spec, SpecChurn)             *)

\* every leaderboard of the returned value, as a sequence of rows
ReturnedWeeklyBoards ==
    IF ret.op = "_aggregate_range" THEN {ret.rows}
    ELSE IF ret.op = "get_leaderboards" THEN {ret.weeks[k] : k \in 1..4}
    ELSE {}

ReturnedBoards ==
    ReturnedWeeklyBoards \cup
        (IF ret.op = "get_leaderboards" THEN {ret.monthly} ELSE {})

\* the units the contributor with this handle posted on day d, all
\* categories together, read from the posts table
UnitsPostedOn(handle, d) ==
    LET sid == soldier_cache[handle].id
    IN  SumUnits({p \in posts : p.soldier_id = sid /\ p.posted_at = d})

RECURSIVE PointsOfDays(_, _, _)
PointsOfDays(handle, first, last) ==
    IF last < first THEN 0
    ELSE compute_qq_points(UnitsPostedOn(handle, last))
             + PointsOfDays(handle, first, last - 1)

\* C4: for every range [start, end] of at least one day, every row returned
\* by _aggregate_range has score = (sum over every day of the range of
\* compute_qq_points(the contributor's units of that day)) / (days * 10);
\* days without submissions add 0 points and still count in the divisor.
C4_ScoreIsDailyPointsOverBudget ==
    (ret.op = "_aggregate_range" /\ ret.end >= ret.start) =>
        \A k \in 1..Len(ret.rows) :
            LET r == ret.rows[k]
                days == (ret.end - ret.start) + 1
            IN  r.score[1] * (days * 10)
                    = r.score[2] * PointsOfDays(r.handle, ret.start, ret.end)

\* C4 witness: a 7-day range in which a contributor posted 8 units on one
\* day and nothing on the other six: 3 points of 70
C4_Witness ==
    /\ ret.op = "_aggregate_range"
    /\ ret.end = ret.start + 6
    /\ \E k \in 1..Len(ret.rows) :
           /\ ret.rows[k].total_units = 8
           /\ Cardinality(DOMAIN ret.rows[k].daily) = 1
           /\ ret.rows[k].score = <<3, 70>>

\* the score of handle h in weekly board k, 0 when h has no row there
WeeklyScoreOrZero(k, h) ==
    LET mine == {r \in RowsOf(ret.weeks[k]) : r.handle = h}
    IN  IF mine = {} THEN <<0, 1>> ELSE (CHOOSE r \in mine : TRUE).score

\* C5: every row of the monthly rollup has score = (sum of the contributor's
\* scores in the weekly leaderboards where they have a row) / 4; a week
\* without a row counts 0 and the divisor is always 4.
C5_MonthlyIsSumOfWeeklyOverFour ==
    ret.op = "get_leaderboards" =>
        \A i \in 1..Len(ret.monthly) :
            LET m == ret.monthly[i]
                total == RatAdd(RatAdd(WeeklyScoreOrZero(1, m.handle),
                                       WeeklyScoreOrZero(2, m.handle)),
                                RatAdd(WeeklyScoreOrZero(3, m.handle),
                                       WeeklyScoreOrZero(4, m.handle)))
            IN  m.score[1] * 4 * total[2] = total[1] * m.score[2]

\* C5 witness: a contributor with rows in weeks 1 and 2 only, scores 3/70 and
\* 1/70, and monthly score (3/70 + 1/70 + 0 + 0) / 4 = 1/70
C5_Witness ==
    /\ ret.op = "get_leaderboards"
    /\ \E i \in 1..Len(ret.monthly) :
           LET h == ret.monthly[i].handle
           IN  /\ WeeklyScoreOrZero(1, h) = <<3, 70>>
               /\ WeeklyScoreOrZero(2, h) = <<1, 70>>
               /\ \A r \in RowsOf(ret.weeks[3]) \cup RowsOf(ret.weeks[4]) : r.handle # h
               /\ ret.monthly[i].score = <<1, 70>>

\* the score _aggregate_range gives handle h over the whole 28-day KPI month
\* of the returned windows, <<0, 1>> when h has no row
DirectMonthRows ==
    _aggregate_range(soldier_cache, posts, ret.windows[1][1], ret.windows[4][2])

\* stores of one contributor with up to two submissions on any days of the
\* KPI month of March 2024, of 1 or 6 units each
OneContributorStores ==
    LET month == _kpi_month_window(date(2024, 3, 1))
        days == month[1] .. month[2]
        first == {PostRow(1, "SE", 1, FALSE, u, d) : u \in {1, 6}, d \in days}
        second == {PostRow(1, "SE", 2, FALSE, u, d) : u \in {1, 6}, d \in days}
    IN  {{a} : a \in first} \cup {{a, b} : a \in first, b \in second}

RollupDiffersFromDirect(table) ==
    LET cache == refresh_soldiers(SoldierRows)
        month == _kpi_month_window(date(2024, 3, 1))
        rollup == get_leaderboards(cache, table, 2024, 3).monthly
        direct == _aggregate_range(cache, table, month[1], month[2])
    IN  \E i \in 1..Len(rollup) :
            \A j \in 1..Len(direct) :
                direct[j].handle = rollup[i].handle => direct[j].score # rollup[i].score

InLeaderboardOrder(a, b) ==
    LET sa == a.score[1] * b.score[2]
        sb == b.score[1] * a.score[2]
    IN  \/ sa > sb
        \/ sa = sb /\ a.total_units > b.total_units
        \/ sa = sb /\ a.total_units = b.total_units /\ StrLess(a.handle, b.handle)

\* C7: the rows of every leaderboard are in the order (descending score,
\* descending total_units, ascending handle): of two adjacent rows with equal
\* score and equal total_units the smaller handle comes first, and no two
\* rows of one leaderboard carry the same handle.
C7_RowsInLeaderboardOrder ==
    \A board \in ReturnedBoards :
        /\ \A k \in 1..(Len(board) - 1) : InLeaderboardOrder(board[k], board[k + 1])
        /\ \A j, k \in 1..Len(board) : board[j].handle = board[k].handle => j = k

\* C7 witness: "Bob" and "alice" tie on score and total_units; "Bob" sorts
\* first (upper case before lower case)
C7_Witness ==
    /\ ret.op = "get_leaderboards"
    /\ Len(ret.monthly) = 2
    /\ ret.monthly[1].handle = H_Bob
    /\ ret.monthly[2].handle = H_alice
    /\ ret.monthly[1].score = ret.monthly[2].score
    /\ ret.monthly[1].total_units = ret.monthly[2].total_units

\* every spelling of the sentinel handle "pgm" in upper and lower case
SentinelSpellings == {<<a, b, c>> : a \in {80, 112}, b \in {71, 103}, c \in {77, 109}}

\* C8: whatever contributor-store changes, cache refreshes, add_content,
\* update_post and delete_post calls came before, no leaderboard returned by
\* _aggregate_range or get_leaderboards has a row whose handle is "pgm" in any
\* letter case.
C8_SentinelNeverListed ==
    \A board \in ReturnedBoards :
        \A k \in 1..Len(board) : board[k].handle \notin SentinelSpellings

\* C8 witness: the sentinel is in the soldiers table and owns a post inside
\* the queried range, and the leaderboard returned lists another contributor
C8_Witness ==
    /\ ret.op = "_aggregate_range"
    /\ [id |-> 3, handle |-> H_PGM] \in soldiers
    /\ \E p \in posts :
           p.soldier_id = 3 /\ ret.start <= p.posted_at /\ p.posted_at <= ret.end
    /\ Len(ret.rows) > 0

\* C9: every row of every leaderboard has 0 <= score <= 1.
C9_ScoreWithinUnitInterval ==
    \A board \in ReturnedBoards :
        \A k \in 1..Len(board) :
            LET sc == board[k].score
            IN  sc[2] > 0 /\ 0 <= sc[1] /\ sc[1] <= sc[2]

\* C9 witness: a one-day range whose day holds 8 units of a contributor: 3
\* points of 10
C9_Witness ==
    /\ ret.op = "_aggregate_range"
    /\ ret.end = ret.start
    /\ \E k \in 1..Len(ret.rows) : ret.rows[k].score = <<3, 10>>

-----------------------------------------------------------------------------
(* Claims about submissions (Spec)                                         *)

\* C10: a successful add_content of category TM posted on D adds exactly the
\* manual TM row (units 1, posted D) and the linked auto row (url suffix
\* #auto-se, category SE, units 6, posted D) of that soldier; with category SE
\* or SH it adds exactly one row (units 1) and no linked row.
C10_AddContentRows ==
    [][(ret'.op = "add_content" /\ ret'.ok /\ ret.op = "none") =>
          LET sid == ret'.soldier_id
              manual == [id |-> <<sid, ret'.tweet, FALSE>>, soldier_id |-> sid,
                         category |-> ret'.category,
                         url |-> [tweet |-> ret'.tweet, auto |-> FALSE],
                         units |-> 1, posted_at |-> ret'.posted_at]
              linked == [id |-> <<sid, ret'.tweet, TRUE>>, soldier_id |-> sid,
                         category |-> "SE",
                         url |-> [tweet |-> ret'.tweet, auto |-> TRUE],
                         units |-> 6, posted_at |-> ret'.posted_at]
              added == IF ret'.category = "TM" THEN {manual, linked} ELSE {manual}
          IN  /\ added \cap posts = {}
              /\ posts' = posts \cup added]_vars

\* C10 witness: after a successful TM submission the table holds the manual
\* row and its linked auto row, on the same day
C10_Witness ==
    /\ ret.op = "add_content"
    /\ ret.ok
    /\ ret.category = "TM"
    /\ \E p, q \in posts :
           /\ p.soldier_id = ret.soldier_id /\ q.soldier_id = ret.soldier_id
           /\ p.url = [tweet |-> ret.tweet, auto |-> FALSE]
           /\ q.url = [tweet |-> ret.tweet, auto |-> TRUE]
           /\ p.units = 1 /\ q.units = 6 /\ q.category = "SE"
           /\ p.posted_at = ret.posted_at /\ q.posted_at = ret.posted_at

-----------------------------------------------------------------------------
(* Claims about editing and deleting submissions (Spec)                    *)

\* the linked auto rows of a parent: same soldier, url = parent url + #auto-se
LinkedRows(table, parent) ==
    {q \in table : q.soldier_id = parent.soldier_id
                     /\ q.url = Url(parent.url.tweet, TRUE)}

\* the row a successful delete_post or update_post was called on
TargetOf(table, r) == {p \in table : p.id = r.post_id}

\* C11: when delete_post succeeds on a manual Thread/Meme (TM) row, the linked
\* auto row of that parent (same soldier, url = parent url + #auto-se) is no
\* longer in the store.
C11_DeleteRemovesLinkedRow ==
    [][(ret'.op = "delete_post" /\ ret'.ok /\ ret.op = "none") =>
          \A p \in TargetOf(posts, ret') :
              (~p.url.auto /\ p.category = "TM") => LinkedRows(posts', p) = {}]_vars

\* C12: when update_post succeeds on a manual row and sets its category to SE
\* or SH, the store afterwards holds no linked auto row (same soldier,
\* url = parent url + #auto-se) of that parent.
C12_RecategorizeRemovesLinkedRow ==
    [][(ret'.op = "update_post" /\ ret'.ok /\ ret.op = "none"
          /\ ret'.category # "TM") =>
          \A p \in TargetOf(posts, ret') :
              ~p.url.auto => LinkedRows(posts', p) = {}]_vars

\* C12 witness: a manual row has just been recategorized to SH; it is in the
\* table with that category, and no row of that soldier carries its url with
\* the #auto-se suffix
C12_Witness ==
    /\ ret.op = "update_post"
    /\ ret.ok
    /\ ret.category = "SH"
    /\ ret.post_id[3] = FALSE
    /\ \E p \in posts :
           /\ p.id = ret.post_id
           /\ p.category = "SH"
           /\ LinkedRows(posts, p) = {}

\* C13: when update_post succeeds on a manual row with new category TM and
\* new posted date D, the store afterwards holds exactly one linked auto row
\* of that parent, of category SE, units 6 and posted date D, whether the
\* linked row existed before (updated) or not (inserted).
C13_RecategorizeToTMSetsLinkedRow ==
    [][(ret'.op = "update_post" /\ ret'.ok /\ ret.op = "none"
          /\ ret'.category = "TM") =>
          \A p \in TargetOf(posts, ret') :
              ~p.url.auto =>
                  /\ Cardinality(LinkedRows(posts', p)) = 1
                  /\ \A q \in LinkedRows(posts', p) :
                         /\ q.category = "SE"
                         /\ q.units = 6
                         /\ q.posted_at = ret'.posted_at]_vars

\* C13 witness: a manual row has just been set to TM with posted date
\* 2024-03-03, and its linked auto row is in the table with that date
C13_Witness ==
    /\ ret.op = "update_post"
    /\ ret.ok
    /\ ret.category = "TM"
    /\ ret.post_id[3] = FALSE
    /\ ret.posted_at = date(2024, 3, 3)
    /\ \E p \in posts :
           /\ p.id = ret.post_id
           /\ p.category = "TM"
           /\ p.posted_at = date(2024, 3, 3)
           /\ \E q \in LinkedRows(posts, p) :
                  q.category = "SE" /\ q.units = 6 /\ q.posted_at = date(2024, 3, 3)

\* C14: in every reachable state, every auto-linked row (url ending in
\* #auto-se) whose parent row exists has the same posted date as that parent.
C14_LinkedRowSharesParentDate ==
    \A p \in posts :
        ~p.url.auto => \A q \in LinkedRows(posts, p) : q.posted_at = p.posted_at

\* C15: in every reachable state, every manually submitted row has units 1
\* and every auto-linked row (url ending in #auto-se) has units 6.
C15_UnitsByKindOfRow ==
    \A p \in posts : p.units = IF p.url.auto THEN 6 ELSE 1

\* C15 witness: update_post has just edited an auto row; that row still has
\* units 6 and its manual parent, in the table, has units 1
C15_Witness ==
    /\ ret.op = "update_post"
    /\ ret.ok
    /\ ret.post_id[3] = TRUE
    /\ \E q \in posts :
           /\ q.id = ret.post_id
           /\ q.units = 6
           /\ \E p \in posts : /\ ~p.url.auto
                               /\ q \in LinkedRows(posts, p)
                               /\ p.units = 1

-----------------------------------------------------------------------------
(* Claims about hidden state (SpecChurn)                                   *)

\* what _aggregate_range returns when it is called right after
\* refresh_soldiers, with the store as it is now
AggregateAfterRefresh(start, end) ==
    _aggregate_range(get_soldiers(refresh_soldiers(soldiers), soldiers),
                     posts, start, end)

\* C16: two calls of _aggregate_range with the same range and the same store
\* contents return identical output whatever happened before or between
\* them. A call made right after refresh_soldiers is one of those calls, so
\* every returned result must be the one such a call returns for the present
\* store: the result depends on no hidden state.
C16_AggregateDependsOnStoreOnly ==
    ret.op = "_aggregate_range" =>
        ret.rows = AggregateAfterRefresh(ret.start, ret.end)

-----------------------------------------------------------------------------
(* Further claims about the calendar engine (SpecCal)                      *)

\* the first day of the calendar month that follows the month of d
NextMonthFirst(d) ==
    IF month_of(d) = 12 THEN date(year_of(d) + 1, 1, 1)
    ELSE date(year_of(d), month_of(d) + 1, 1)

WindowsOverlap(a, b) == \E day \in a[1]..a[2] : day \in b[1]..b[2]

\* C17 as stated: KPI month windows of consecutive calendar months may
\* overlap: there is a calendar month M (of the years modelled, the month of
\* today among them) and a day that lies both in _kpi_month_window of M and
\* in _kpi_month_window of the month following M.
C17_Original ==
    \E d \in {today} \cup Dates :
        WindowsOverlap(_kpi_month_window(d), _kpi_month_window(NextMonthFirst(d)))

\* C17, amended: KPI month windows of consecutive calendar months never
\* overlap: the window of the month following M starts on the day after the
\* window of M ends, or 8 days after it; no day lies in both.
C17_ConsecutiveWindowsDisjoint ==
    ret.op = "_kpi_month_window" =>
        LET next == _kpi_month_window(NextMonthFirst(ret.arg))
        IN  /\ ~WindowsOverlap(ret.window, next)
            /\ next[1] - ret.window[2] \in {1, 8}

\* C17 witness: the window returned for February 2024 ends on the day before
\* the window of March 2024 starts
C17_Witness ==
    /\ ret.op = "_kpi_month_window"
    /\ ret.arg = date(2024, 2, 15)
    /\ ret.window = <<date(2024, 1, 28), date(2024, 2, 24)>>
    /\ _kpi_month_window(NextMonthFirst(ret.arg))[1] = date(2024, 2, 25)

\* Sundays, counted in weeks from Sunday 2022-01-02
IsSunday(o) == (o - date(2022, 1, 2)) % 7 = 0

\* C18: for every date d, start_of_week_window(d) is a Sunday s with s <= d
\* and d - s <= 6 days (s = d when d is a Sunday); and every start returned by
\* _kpi_month_window, current_kpi_window and four_week_windows is a Sunday.
C18_StartsAreSundays ==
    /\ ret.op = "start_of_week_window" =>
           /\ \A s \in {ret.start, ret.app_start} :
                  /\ IsSunday(s)
                  /\ s <= ret.arg
                  /\ ret.arg - s <= 6
                  /\ IsSunday(ret.arg) => s = ret.arg
    /\ ret.op \in {"_kpi_month_window", "current_kpi_window"} =>
           IsSunday(ret.window[1])
    /\ ret.op = "four_week_windows" =>
           \A k \in 1..4 : /\ IsSunday(ret.windows[k][1])
                           /\ IsSunday(ret.app_windows[k][1])

\* C18 witness: for Saturday 2024-03-09 the start returned is Sunday
\* 2024-03-03, six days earlier
C18_Witness ==
    /\ ret.op = "start_of_week_window"
    /\ ret.arg = date(2024, 3, 9)
    /\ ret.start = date(2024, 3, 3)
    /\ ret.arg - ret.start = 6

\* the calendar month immediately before (y, m)
PreviousMonth(ym) == IF ym[2] = 1 THEN <<ym[1] - 1, 12>> ELSE <<ym[1], ym[2] - 1>>

\* C19: for every date today and count >= 1, kpi_month_sequence(today, count)
\* returns exactly count (year, month) pairs with month in 1..12; the first
\* is the calendar month whose KPI window is current_kpi_window(today), and
\* each following pair is the calendar month immediately before the previous
\* one (January of year y is followed by December of year y - 1).
C19_MonthSequenceWalksBack ==
    ret.op = "kpi_month_sequence" =>
        /\ ret.count >= 1
        /\ Len(ret.months) = ret.count
        /\ \A k \in 1..Len(ret.months) :
               /\ Len(ret.months[k]) = 2
               /\ ret.months[k][2] \in 1..12
        /\ _kpi_month_window(date(ret.months[1][1], ret.months[1][2], 1))
               = current_kpi_window(ret.arg)
        /\ \A k \in 2..Len(ret.months) :
               ret.months[k] = PreviousMonth(ret.months[k - 1])

\* C19 witness: on 2024-12-30 the current KPI window is that of January 2025,
\* and the sequence of 3 walks back over the year boundary
C19_Witness ==
    /\ ret.op = "kpi_month_sequence"
    /\ ret.arg = date(2024, 12, 30)
    /\ ret.count = 3
    /\ ret.months = << <<2025, 1>>, <<2024, 12>>, <<2024, 11>> >>

-----------------------------------------------------------------------------
(* Further claims about the leaderboards (Spec)                            *)

\* the handles with a row in at least one of the 4 returned weekly boards
WeeklyHandles == {r.handle : r \in UNION {RowsOf(ret.weeks[k]) : k \in 1..4}}

\* the sum of field f over the rows handle h has in the returned week k
WeeklyField(k, h, f) ==
    LET mine == {r \in RowsOf(ret.weeks[k]) : r.handle = h}
    IN  SumOver([r \in mine |-> r[f]], mine)

\* C20: the monthly rollup of get_leaderboards contains exactly the
\* contributors that have a row in at least one of the 4 weekly leaderboards
\* of the same result, each exactly once, and each monthly row's tm, se, sh
\* and total_units are the sums of that contributor's values over the weekly
\* rows where they appear.
C20_RollupIsUnionAndSums ==
    ret.op = "get_leaderboards" =>
        /\ {ret.monthly[i].handle : i \in 1..Len(ret.monthly)} = WeeklyHandles
        /\ \A i, j \in 1..Len(ret.monthly) :
               ret.monthly[i].handle = ret.monthly[j].handle => i = j
        /\ \A i \in 1..Len(ret.monthly) :
               \A f \in {"tm", "se", "sh", "total_units"} :
                   ret.monthly[i][f] =
                       WeeklyField(1, ret.monthly[i].handle, f)
                       + WeeklyField(2, ret.monthly[i].handle, f)
                       + WeeklyField(3, ret.monthly[i].handle, f)
                       + WeeklyField(4, ret.monthly[i].handle, f)

\* C20 witness: a contributor with a TM submission (and its linked row) in
\* week 1 and a shill in week 2 has one monthly row: tm 1, se 6, sh 1, total 8
C20_Witness ==
    /\ ret.op = "get_leaderboards"
    /\ \E i \in 1..Len(ret.monthly) :
           LET m == ret.monthly[i]
           IN  /\ WeeklyField(1, m.handle, "total_units") = 7
               /\ WeeklyField(2, m.handle, "sh") = 1
               /\ m.tm = 1 /\ m.se = 6 /\ m.sh = 1 /\ m.total_units = 8

-----------------------------------------------------------------------------
(* Claims about the rows of an aggregation (SpecLegacy)                    *)

\* the handles of the rows a call of _aggregate_range returned
ReturnedHandles == {ret.rows[k].handle : k \in 1..Len(ret.rows)}

\* the contributors the service resolves (those of its cache) that are not
\* the sentinel and own a submission posted within [start, end]
ContributorsWithPosts(start, end) ==
    {c \in CacheRows(soldier_cache) :
        /\ Lower(c.handle) # H_pgm
        /\ \E p \in posts : /\ p.soldier_id = c.id
                            /\ start <= p.posted_at /\ p.posted_at <= end}

\* C21: a contributor has a row in the result of _aggregate_range(start, end)
\* if and only if they are a resolvable, non-sentinel contributor owning at
\* least one submission posted within [start, end]; nobody else has a row.
C21_RowIffContributorWithPosts ==
    (ret.op = "_aggregate_range" /\ "rows" \in DOMAIN ret) =>
        ReturnedHandles =
            {c.handle : c \in ContributorsWithPosts(ret.start, ret.end)}

\* C22: when an in-range submission has an unparseable posted date,
\* _aggregate_range skips only that submission and still returns the
\* leaderboard computed from the remaining submissions: every call returns
\* rows, those of the submissions whose posted date parses.
C22_UnparseableDateIsSkipped ==
    ret.op = "_aggregate_range" =>
        /\ "rows" \in DOMAIN ret
        /\ ret.rows = _aggregate_range(soldier_cache, {p \in posts : Parses(p)},
                                       ret.start, ret.end)

\* C23: when a submission whose category is not one of TM, SE, SH reaches
\* _aggregate_range, the aggregation fails with an error that propagates to
\* the caller; it returns no leaderboard.
C23_InvalidCategoryRaises ==
    (/\ ret.op = "_aggregate_range"
     /\ \E p \in CountedPosts(soldier_cache, posts, ret.start, ret.end) :
            p.category \notin Categories)
        => "raised" \in DOMAIN ret

-----------------------------------------------------------------------------
(* Claims about sessions that share the service (SpecSessions)             *)

\* C24: a leaderboard query reads the store as one consistent snapshot:
\* within a single get_leaderboards result no submission is counted in more
\* than one of the 4 weekly leaderboards, and no submission that was in the
\* KPI month all along is missed, even when update_post, delete_post or
\* add_content calls of another session interleave with the query.
C24_QueryReadsOneSnapshot ==
    (pc[Viewer].at = "done" /\ ret.op = "get_leaderboards") =>
        LET run == pc[Viewer]
        IN  /\ \A j, k \in 1..4 : j # k => run.fetched[j] \cap run.fetched[k] = {}
            /\ run.present \subseteq UNION {run.fetched[k] : k \in 1..4}

\* C30: with one UpdateService shared by all sessions, every store operation
\* issued on behalf of a user runs with that user's own credentials: a call
\* of set_auth_session by another session between a session's own
\* set_auth_session and its store operation cannot make the operation run
\* under the other session's access token.
C30_OperationsUseOwnToken ==
    \A s \in Sessions : pc[s].ran_as \subseteq {s}

-----------------------------------------------------------------------------
(* Claims about the contributor cache (SpecChurn)                          *)

\* the store's current contributors other than the sentinel
NonSentinelSoldiers(table) == {r \in table : Lower(r.handle) # H_pgm}

\* C25: the contributor list is cached.  Once the cache is non-empty, no call
\* other than refresh_soldiers changes it, whatever the store's owner adds or
\* removes; refresh_soldiers makes it the store's current non-sentinel
\* contributors; and an aggregation lists only contributors of the cache, so
\* submissions of contributors missing from it are dropped.
C25_CachedUntilRefresh ==
    [][/\ (DOMAIN soldier_cache # {} /\ ret'.op # "refresh_soldiers") =>
              soldier_cache' = soldier_cache
       /\ (ret'.op = "refresh_soldiers" /\ ret.op = "none") =>
              /\ CacheRows(soldier_cache') = NonSentinelSoldiers(soldiers')
              /\ \A h \in DOMAIN soldier_cache' : soldier_cache'[h].handle = h
       /\ (ret'.op = "_aggregate_range" /\ ret.op = "none") =>
              \A k \in 1..Len(ret'.rows) :
                  ret'.rows[k].handle \in DOMAIN soldier_cache']_vars

\* C25 witness: the store holds Bob and a submission of Bob in the range, but
\* the non-empty cache was filled without Bob, and the aggregation just
\* returned has no row for Bob
C25_Witness ==
    /\ ret.op = "_aggregate_range"
    /\ DOMAIN soldier_cache # {}
    /\ H_Bob \notin DOMAIN soldier_cache
    /\ \E r \in soldiers : r.handle = H_Bob
    /\ \E p \in posts : /\ p.soldier_id = 2
                        /\ ret.start <= p.posted_at /\ p.posted_at <= ret.end
    /\ \A k \in 1..Len(ret.rows) : ret.rows[k].handle # H_Bob

-----------------------------------------------------------------------------
(* Further claims about editing and deleting submissions (Spec)            *)

\* C26: in every reachable state, every manual row of category TM has a
\* linked auto row (same soldier, url = its url + #auto-se), and every auto
\* row has a parent manual row of category TM.
C26_ThreadRowsArePaired ==
    /\ \A p \in posts :
           (~p.url.auto /\ p.category = "TM") => LinkedRows(posts, p) # {}
    /\ \A q \in posts :
           q.url.auto =>
               \E p \in posts : /\ ~p.url.auto
                                /\ p.category = "TM"
                                /\ q \in LinkedRows(posts, p)

\* the post with this id exists and its owning soldier is, in the cache the
\* call reads, one of the caller's allowed handles, compared without case
OwnedByAllowed(id, allowed) ==
    \E p \in posts :
        /\ p.id = id
        /\ \E c \in CacheRows(get_soldiers(soldier_cache, soldiers)) :
               /\ c.id = p.soldier_id
               /\ \E h \in allowed : Lower(h) = Lower(c.handle)

\* what a refused call does: (False, message), every row as it was
Refused ==
    /\ ~ret'.ok
    /\ ret'.msg \in {"Not authorized", "Post not found"}
    /\ posts' = posts

\* C27: delete_post and update_post change the store only when the target
\* post exists and its owning soldier is among the caller's allowed handles
\* (resolved case-insensitively through the contributor cache); otherwise
\* they return (False, "Not authorized" or "Post not found") and leave every
\* row of the store unchanged.
C27_EditsNeedOwnership ==
    [][/\ (Idle /\ ret'.op = "delete_post") =>
              \A id \in IdInputs, allowed \in AllowedInputs :
                  (~OwnedByAllowed(id, allowed) /\ delete_post(id, allowed))
                      => Refused
       /\ (Idle /\ ret'.op = "update_post") =>
              \A id \in IdInputs, allowed \in AllowedInputs :
                  ~OwnedByAllowed(id, allowed) =>
                      \A c \in Categories, d \in PostDays :
                          update_post(id, allowed, c, d) => Refused]_vars

\* C27 witness: a delete_post has just been refused as not authorized while
\* the table holds a submission of Bob
C27_Witness ==
    /\ ret.op = "delete_post"
    /\ ~ret.ok
    /\ ret.msg = "Not authorized"
    /\ \E p \in posts : p.soldier_id = 2

-----------------------------------------------------------------------------
(* Further claims about the rows of an aggregation (SpecLegacy)            *)

\* C28: for every row returned by _aggregate_range, when every in-range
\* submission has a category in {TM, SE, SH}: total_units = tm + se + sh,
\* total_units is the sum of that contributor's per-day unit totals, and
\* total_units >= 1.
C28_TotalIsSumOfCategories ==
    (/\ ret.op = "_aggregate_range"
     /\ "rows" \in DOMAIN ret
     /\ \A p \in _fetch_posts_range(posts, ret.start, ret.end) :
            p.category \in Categories)
        => \A k \in 1..Len(ret.rows) :
               LET r == ret.rows[k]
               IN  /\ r.total_units = r.tm + r.se + r.sh
                   /\ r.total_units = SumOver(r.daily, DOMAIN r.daily)
                   /\ r.total_units >= 1

\* C28 witness: the store holds a row of an unknown category outside the
\* queried range, and a returned row sums a thread and its linked engagement
\* row: tm 1, se 6, sh 0, total 7
C28_Witness ==
    /\ ret.op = "_aggregate_range"
    /\ "rows" \in DOMAIN ret
    /\ \E p \in posts : p.category \notin Categories
    /\ \A p \in _fetch_posts_range(posts, ret.start, ret.end) :
           p.category \in Categories
    /\ \E k \in 1..Len(ret.rows) :
           LET r == ret.rows[k]
           IN  /\ r.tm = 1 /\ r.se = 6 /\ r.sh = 0 /\ r.total_units = 7

-----------------------------------------------------------------------------
(* Further claims about the calendar engine (SpecCal)                      *)

\* C29: for every date today, the window returned by _kpi_month_window(today)
\* starts on or before today (start <= first day of today's month <= today),
\* so the `today < start` branch of current_kpi_window, which retreats to the
\* previous calendar month, is never taken: current_kpi_window returns the
\* window of today's month or of the month after it.
C29_WindowStartsOnOrBeforeToday ==
    /\ ret.op = "_kpi_month_window" =>
           LET month_start == date(year_of(ret.arg), month_of(ret.arg), 1)
           IN  /\ ret.window[1] <= month_start
               /\ month_start <= ret.arg
               /\ ~(ret.arg < ret.window[1])
    /\ ret.op = "current_kpi_window" =>
           /\ ~(ret.arg < _kpi_month_window(ret.arg)[1])
           /\ ret.window \in {_kpi_month_window(ret.arg),
                              _kpi_month_window(NextMonthFirst(ret.arg))}

\* C29 witness: the boundary case, a month whose first day is a Sunday asked
\* about on that day, so that start = first of the month = today
C29_Witness ==
    /\ ret.op = "_kpi_month_window"
    /\ ret.window[1] = ret.arg
    /\ weekday(ret.arg) = 6
    /\ ret.arg = date(year_of(ret.arg), month_of(ret.arg), 1)

=============================================================================
